---- MODULE Spec2Model ----
(***************************************************************************)
(* Backtest execution-and-evaluation subsystem of Algoace:                 *)
(*   - the in-memory job table and the background task that runs a job     *)
(*     (backend/api/backtesting.py),                                       *)
(*   - the persisted BacktestResult table and its retention / lock /       *)
(*     analysis operations (backend/crud_backtest.py,                      *)
(*     backend/api/backtest_history.py),                                   *)
(*   - the reconciliation of a catalog dataset entry with its file         *)
(*     (validate_dataset_file, backend/api/datasets.py).                   *)
(*                                                                         *)
(* Scheduling.  Every endpoint of the backtesting and backtest-history     *)
(* routers is an `async def` and the background task                       *)
(* is created with asyncio.create_task; neither the endpoints nor          *)
(* simulate_backtest_execution contain an `await`, so each handler runs    *)
(* to completion on the event loop and a started task holds the loop       *)
(* until it returns.  The task is nevertheless modelled in steps (one per  *)
(* phase of the function) so that its intermediate writes to the job       *)
(* record are states of the model; `running` names the job whose task      *)
(* holds the loop, and no handler is enabled while it is non-zero.         *)
(***************************************************************************)
EXTENDS Integers, Sequences, FiniteSets, TLC

\* ------------------------------------------------------------------ bounds
MaxJobs == 1
MaxBars == 2
MaxRows == 2
MaxKeep == 2
MaxLoopBars == 3

\* ------------------------------------------------------ program constants
\* `if i >= 14:  # Need at least 14 days for RSI`
RsiWarmup == 14
\* keep_count: int = Query(5, ge=1, le=100)
MinKeep == 1

VARIABLES
    backtest_jobs,  \* the module-level dict, job id -> job record; ids are 1, 2, ...
    pc,             \* position of each job's background task
    running,        \* job whose task currently holds the event loop, 0 if none
    task,           \* locals of the running task
    fileOK,         \* per catalog dataset: backing file exists and parses
    compat,         \* per catalog dataset: metadata flag lumibot_compatible
    metadata,       \* per catalog dataset: the derived keys its dataset_metadata holds
    recon,          \* per reconciliation in progress: its position and its copy of the entry
    validation,     \* one call of validate_dataset_file: the disk, the entry, the result
    table,          \* the BacktestResult table: a set of rows
    clock,          \* datetime.utcnow() of the last row created
    nextId,         \* next primary key of the BacktestResult table
    resp            \* response of the last HTTP handler that ran

vars == <<backtest_jobs, pc, running, task, fileOK, compat, metadata, recon, validation, table, clock, nextId, resp>>
jobVars == <<backtest_jobs, pc, running, task>>
storeVars == <<table, clock, nextId>>

\* ------------------------------------------------------------ value spaces
JobIds == 1..MaxJobs
Datasets == {1, 2}
\* catalog entries whose backing file is gone for good (a stale entry); the
\* file of the other entries comes and goes
StaleDatasets == {1}
\* An optional key of a job record is a sequence: <<>> while the key was
\* never set, <<v>> once it holds v.
Absent == <<>>
\* line 502: current_date = None (a day number no bar carries)
NoDate == 0
NoResp == [op |-> "none", code |-> 0, arg |-> 0, body |-> "none", data |-> ""]

\* a handler's response: status code, the id or count it reports, its
\* message, and (analyze) the analysis text it returns, (prune) the
\* keep_count of the request it answers
ReplyData(op, code, arg, body, data) ==
    [op |-> op, code |-> code, arg |-> arg, body |-> body, data |-> data]
Reply(op, code, arg, body) == ReplyData(op, code, arg, body, "")

\* faulty variant of HandlerCanRun: handlers are served while a task is
\* between two of its writes
HandlerCanRunAnytime == TRUE

\* every endpoint is an `async def` run by the event loop, and the task
\* never awaits: a handler runs only while no task holds the loop
HandlerCanRun == running = 0

\* Identifiers sent to /run.  "strat-1" is a catalog strategy, "strat-9" a
\* numeric id missing from the catalog, "strat-rsi_mean_reversion" a module of
\* backend/strategies, "strat-nomod" a slug with no module, "badid" has no
\* dash, "strat-a-b" has two.
StrategyIds == {"strat-1", "strat-9", "strat-rsi_mean_reversion", "strat-nomod",
                "badid", "strat-a-b"}

\* request.strategy_id.split("-")
Split(sid) ==
    CASE sid = "strat-1" -> <<"strat", "1">>
      [] sid = "strat-9" -> <<"strat", "9">>
      [] sid = "strat-rsi_mean_reversion" -> <<"strat", "rsi_mean_reversion">>
      [] sid = "strat-nomod" -> <<"strat", "nomod">>
      [] sid = "badid" -> <<"badid">>
      [] sid = "strat-a-b" -> <<"strat", "a", "b">>

\* str.isdigit()
IsDigit(s) == s \in {"1", "9"}

\* int(strategy_identifier)
ToInt(s) == CASE s = "1" -> 1 [] s = "9" -> 9

\* strategy_id.startswith("strat-")
StartsWithStrat(sid) == Split(sid)[1] = "strat" /\ Len(Split(sid)) >= 2

\* rows of the Strategy table (crud.get_strategy finds them)
StrategyCatalog == {1}

\* modules importable as backend.strategies.<name>
StrategyModules == {"rsi_mean_reversion", "bollinger_breakout", "ema_cross_strategy"}

\* (symbol, timeframe) pairs a request may carry; the catalog holds two
\* datasets, both named for EUR/USD with timeframe 1d, so a request for the
\* 1h timeframe finds none.
Markets == {<<"EUR/USD", "1d">>, <<"EUR/USD", "1h">>}
DatasetMarket(d) == <<"EUR/USD", "1d">>

\* Every backing file carries one bar per day on days 2 .. MaxBars+1.
FileDays == {d \in 1..(MaxBars + 1) : d >= 2}
\* (startDate, endDate) of a request: the file's range, a range before the
\* data, and a range that starts before the data.
DateRanges == {<<2, MaxBars + 1>>, <<1, 1>>, <<1, MaxBars + 1>>}

\* ---------------------------------------------------------------- messages
MsgImport == "Backtest failed: Failed to import strategy"
MsgNoDataset == "Backtest failed: No dataset found"
MsgNoValid == "Backtest failed: No valid dataset found"
MsgRead == "Backtest failed: Error running backtest: read error"
MsgNotEnough == "Backtest failed: Error running backtest: Not enough data for the selected date range"
MsgTimeout == "Backtest failed: Error running backtest: Backtest execution timed out"
MsgSetup == "Backtest failed: Error running backtest: Error setting up backtest"
MsgUnbound == "Backtest failed: Error running backtest: Error setting up backtest: local variable 'current_rsi' referenced before assignment"
MsgConvert == "Backtest failed: Error running backtest: object has no attribute"
MsgPersist == "Backtest failed: Error running backtest: database error"
MsgCompleted == "Backtest completed successfully"

\* line 833 reads the local current_rsi; it is assigned only at line 827,
\* under `if i >= 14`, so it is unbound when the loop is entered
InitialRsi == "unbound"

\* the locals of simulate_backtest_execution.  positions is the dict
\* portfolio["positions"]: <<>> when empty, <<p>> when it holds the position
\* p of the one symbol traded; summary_metrics is <<>> until line 995 binds it.
\* portfolio["cash"] is cash plus cash_error units of the last place.
IdleTask == [late |-> FALSE, dataset |-> 0, dates |-> <<>>, i |-> 0,
             current_rsi |-> InitialRsi, cash |-> 0, cash_error |-> 0,
             positions |-> <<>>,
             price |-> 0, trades_list |-> <<>>, equity_curve |-> <<>>,
             summary_metrics |-> <<>>, range_warning |-> FALSE]

\* a job record as run_backtest stores it (created_at / updated_at left out)
NewJob(sid, market, range) ==
    [strategy_id |-> sid, market |-> market, range |-> range,
     status |-> "PENDING", progress |-> Absent, current_date |-> Absent,
     total_days |-> Absent, message |-> Absent, results |-> Absent]

Jobs == DOMAIN backtest_jobs

\* the days of a set, ascending (data.sort_values('timestamp'))
RECURSIVE SortedDays(_)
SortedDays(S) ==
    IF S = {} THEN <<>>
    ELSE LET m == CHOOSE x \in S : \A y \in S : x <= y
         IN <<m>> \o SortedDays(S \ {m})

\* ------------------------------------------------------- dataset resolver
\* search_datasets(session, symbol, {"timeframe": tf}): name contains the
\* symbol and metadata timeframe equals tf
search_datasets(market) == { d \in Datasets : DatasetMarket(d) = market }

\* validate_dataset_file(...)["valid"]: the file is found and read; missing
\* columns only add a warning
validate_dataset_file(d) == fileOK[d]

\* the keys of dataset_metadata a reconciliation derives from the file:
\* validate_dataset_file (lines 182-192) and check_dataset_availability
\* (lines 194-197 of datasets.py)
Reconcilers == {"validate_dataset_file", "check_dataset_availability"}
DerivedKeys(p) ==
    IF p = "validate_dataset_file"
    THEN {"file_size", "row_count", "last_validated", "start_date", "end_date"}
    ELSE {"start_date", "end_date", "data_points"}

\* validate_dataset_file run for each dataset of ds, one call after the
\* other with nothing in between: every entry whose file reads gets the keys
Validated(md, ds) ==
    [d \in Datasets |-> IF d \in ds /\ fileOK[d]
                        THEN md[d] \cup DerivedKeys("validate_dataset_file")
                        ELSE md[d]]

\* no call of validate_dataset_file under study
NoValidation == [pc |-> "none"]

\* a reconciliation that holds no entry
IdleRecon == [pc |-> "idle", dataset |-> 0, dataset_metadata |-> {}, wrote |-> FALSE]

\* ------------------------------------------------------------------- Init
Init ==
    /\ backtest_jobs = <<>>
    /\ pc = [j \in JobIds |-> "none"]
    /\ running = 0
    /\ task = IdleTask
    /\ fileOK = [d \in Datasets |-> d \notin StaleDatasets]
    /\ compat \in {[d \in Datasets |-> FALSE], [d \in Datasets |-> d = 2]}
    /\ metadata = [d \in Datasets |-> {}]
    /\ recon = [p \in Reconcilers |-> IdleRecon]
    /\ validation = NoValidation
    /\ table = {}
    /\ clock = 0
    /\ nextId = 1
    /\ resp = NoResp

\* ------------------------------------------------------------ environment
\* a backing file appears or disappears on disk
EnvFile(d) ==
    /\ fileOK' = [fileOK EXCEPT ![d] = ~fileOK[d]]
    /\ UNCHANGED <<backtest_jobs, pc, running, task, compat, metadata, recon, validation, storeVars, resp>>

\* ----------------------------------------------------------------- submit
\* uuid4: a key not yet in the dict
FreshJobId == Len(backtest_jobs) + 1

\* lines 259-283: "ok", or the HTTPException raised
CheckStrategyId(sid) ==
    LET parts == Split(sid) IN
    IF Len(parts) # 2 THEN 400
    ELSE IF parts[1] = "strat" /\ ~IsDigit(parts[2]) THEN 200
    ELSE IF ~IsDigit(parts[2]) THEN 400
    ELSE IF ToInt(parts[2]) \notin StrategyCatalog THEN 404
    ELSE 200

\* lines 295-304: the datasets of the search that validate
ValidDatasets(market) == { d \in search_datasets(market) : validate_dataset_file(d) }

\* faulty variant of SubmitAccepts: the compatibility flag gates acceptance
SubmitAcceptsCompatible(sid, market) ==
    /\ CheckStrategyId(sid) = 200
    /\ \E d \in ValidDatasets(market) : compat[d]

\* lines 321-331: reject when no dataset validated
SubmitAccepts(sid, market) ==
    /\ CheckStrategyId(sid) = 200
    /\ ValidDatasets(market) # {}

\* POST /backtesting/run
run_backtest(sid, market, range) ==
    /\ HandlerCanRun
    /\ SubmitAccepts(sid, market) => Len(backtest_jobs) < MaxJobs
    /\ IF SubmitAccepts(sid, market)
       THEN /\ backtest_jobs' = Append(backtest_jobs, NewJob(sid, market, range))
            /\ pc' = [pc EXCEPT ![FreshJobId] = "queued"]
            /\ resp' = Reply("run", 200, FreshJobId, "PENDING")
       ELSE /\ UNCHANGED <<backtest_jobs, pc>>
            /\ resp' = Reply("run",
                             IF CheckStrategyId(sid) # 200 THEN CheckStrategyId(sid) ELSE 400,
                             0,
                             IF CheckStrategyId(sid) # 200 THEN "strategy"
                             ELSE IF search_datasets(market) = {} THEN "No dataset available"
                             ELSE "No valid dataset available")
    /\ metadata' = IF CheckStrategyId(sid) = 200
                   THEN Validated(metadata, search_datasets(market))
                   ELSE metadata
    /\ UNCHANGED <<running, task, fileOK, compat, recon, validation, storeVars>>

\* lines 374-380: the response built from a job record
StatusView(job) ==
    [status |-> job.status,
     message |-> IF job.message = Absent THEN "" ELSE job.message[1],
     progress |-> IF job.progress = Absent THEN 0 ELSE job.progress[1],
     current_date |-> IF job.current_date = Absent THEN NoDate ELSE job.current_date[1],
     total_days |-> IF job.total_days = Absent THEN 0 ELSE job.total_days[1]]

\* GET /backtesting/jobs/{job_id}/status: 404 for an unknown id, otherwise
\* StatusView(backtest_jobs[j]) of the state it runs in
get_backtest_job_status(j) ==
    /\ HandlerCanRun
    /\ resp' = IF j \notin Jobs
               THEN Reply("status", 404, j, "not found")
               ELSE Reply("status", 200, j, "status")
    /\ UNCHANGED <<backtest_jobs, pc, running, task, fileOK, compat, metadata, recon, validation, storeVars>>

\* ------------------------------------------------------- background task
\* time passes while a step runs: the elapsed time may cross the timeout
Elapse == {task.late, TRUE}

\* faulty variant of MarkFailed: the except clause records no message
MarkFailedSilently(job, msg) == [job EXCEPT !.status = "FAILED"]

\* faulty variant of MarkFailed: the except clause attaches the results
\* computed so far to the failed job
MarkFailedWithResults(job, msg) ==
    [job EXCEPT !.status = "FAILED", !.message = <<msg>>, !.results = <<"result">>]

\* lines 1092-1098: the outer except clause
MarkFailed(job, msg) == [job EXCEPT !.status = "FAILED", !.message = <<msg>>]

\* faulty variant of FailWith: the exception escapes the coroutine and the
\* job record is left as the last publication wrote it
FailEscapes(j, job, msg) ==
    /\ backtest_jobs' = [backtest_jobs EXCEPT ![j] = job]
    /\ pc' = [pc EXCEPT ![j] = "done"]
    /\ running' = 0
    /\ task' = IdleTask

\* an exception raised in the task: it is caught at line 1092, the job is
\* marked FAILED and the coroutine returns
FailWith(j, job, msg) ==
    /\ backtest_jobs' = [backtest_jobs EXCEPT ![j] = MarkFailed(job, msg)]
    /\ pc' = [pc EXCEPT ![j] = "done"]
    /\ running' = 0
    /\ task' = IdleTask

Fail(j, msg) == FailWith(j, backtest_jobs[j], msg)

\* lines 498-502
MarkRunning(job) ==
    [job EXCEPT !.status = "RUNNING", !.progress = <<0>>, !.current_date = <<NoDate>>]

\* faulty variant of CanStart: a finished task is scheduled again
CanStartAgain(j) == running = 0 /\ pc[j] \in {"queued", "done"}

\* the event loop starts a task that create_task scheduled
CanStart(j) == running = 0 /\ pc[j] = "queued"

\* faulty variant of TaskStart: the start of a run clears the table
TaskStartPurging(j) ==
    /\ CanStart(j)
    /\ backtest_jobs' = [backtest_jobs EXCEPT ![j] = MarkRunning(backtest_jobs[j])]
    /\ pc' = [pc EXCEPT ![j] = "strategy"]
    /\ running' = j
    /\ task' = IdleTask
    /\ table' = {}
    /\ UNCHANGED <<fileOK, compat, metadata, recon, validation, clock, nextId, resp>>

\* lines 493-505
TaskStart(j) ==
    /\ CanStart(j)
    /\ backtest_jobs' = [backtest_jobs EXCEPT ![j] = MarkRunning(backtest_jobs[j])]
    /\ pc' = [pc EXCEPT ![j] = "strategy"]
    /\ running' = j
    /\ task' = IdleTask
    /\ UNCHANGED <<fileOK, compat, metadata, recon, validation, storeVars, resp>>

\* lines 514-518
StrategyName(sid) == IF StartsWithStrat(sid) THEN Split(sid)[2] ELSE sid

\* lines 520-533: import_module(f"backend.strategies.{strategy_name}") and the
\* lookup of the strategy class
LoadStrategy(j) ==
    /\ running = j /\ pc[j] = "strategy"
    /\ \E lt \in Elapse :
        IF StrategyName(backtest_jobs[j].strategy_id) \in StrategyModules
        THEN /\ pc' = [pc EXCEPT ![j] = "dataset"]
             /\ task' = [task EXCEPT !.late = lt]
             /\ UNCHANGED <<backtest_jobs, running>>
        ELSE Fail(j, MsgImport)
    /\ UNCHANGED <<fileOK, compat, metadata, recon, validation, storeVars, resp>>

\* lines 544-584: search, validate, use the first valid dataset
ResolveDataset(j) ==
    /\ running = j /\ pc[j] = "dataset"
    /\ LET found == search_datasets(backtest_jobs[j].market)
           valid == ValidDatasets(backtest_jobs[j].market)
       IN \E lt \in Elapse :
          IF found = {} THEN Fail(j, MsgNoDataset)
          ELSE IF valid = {} THEN Fail(j, MsgNoValid)
          ELSE /\ pc' = [pc EXCEPT ![j] = "data"]
               /\ task' = [task EXCEPT !.late = lt,
                                       !.dataset = CHOOSE d \in valid : \A e \in valid : d <= e]
               /\ UNCHANGED <<backtest_jobs, running>>
    /\ metadata' = Validated(metadata, search_datasets(backtest_jobs[j].market))
    /\ UNCHANGED <<fileOK, compat, recon, validation, storeVars, resp>>

\* lines 623-630 (and 668-674): the requested range leaves the range of
\* the data; a warning is logged and the run goes on
RangeOutside(range) ==
    \/ \E d \in FileDays : (\A e \in FileDays : d <= e) /\ range[1] < d
    \/ \E d \in FileDays : (\A e \in FileDays : d >= e) /\ range[2] > d

\* faulty variant of FilterDays: a range that leaves the available data
\* selects no bar
FilterDaysInsideOnly(range) ==
    IF RangeOutside(range) THEN {}
    ELSE { d \in FileDays : d >= range[1] /\ d <= range[2] }

\* line 632: data[(timestamp >= start_date) & (timestamp <= end_date)]
FilterDays(range) == { d \in FileDays : d >= range[1] /\ d <= range[2] }

\* line 653: (end_date - start_date).days
TotalDays(range) == range[2] - range[1]

\* lines 586-663: read the file, filter by date, check the row count, check
\* the timeout once, publish progress 0 then 10
LoadData(j) ==
    /\ running = j /\ pc[j] = "data"
    /\ LET job == backtest_jobs[j]
           days == FilterDays(job.range)
       IN \E lt \in Elapse :
          IF ~fileOK[task.dataset] THEN Fail(j, MsgRead)
          ELSE IF Cardinality(days) < 1 THEN Fail(j, MsgNotEnough)
          ELSE IF lt THEN Fail(j, MsgTimeout)
          ELSE /\ backtest_jobs' = [backtest_jobs EXCEPT ![j] =
                      [job EXCEPT !.progress = <<10>>, !.current_date = <<job.range[1]>>,
                                  !.total_days = <<TotalDays(job.range)>>]]
               /\ pc' = [pc EXCEPT ![j] = "setup"]
               /\ task' = [task EXCEPT !.late = lt, !.dates = SortedDays(days),
                                       !.range_warning = RangeOutside(job.range)]
               /\ UNCHANGED running
    /\ UNCHANGED <<fileOK, compat, metadata, recon, validation, storeVars, resp>>

\* parameters["initialCapital"] of a request
InitialCapital == 400

\* lines 796-811: the portfolio, the empty trade list and the initial point
\* of the equity curve
PortfolioInit(t, initial_capital, start_date) ==
    [t EXCEPT !.i = 0, !.cash = initial_capital, !.cash_error = 0, !.positions = <<>>,
              !.trades_list = <<>>,
              !.equity_curve = <<[timestamp |-> start_date, equity |-> initial_capital]>>]

\* lines 665-811: build the library objects (tz_localize, Asset, Data), take
\* the fallback engine (parameters carry no "useLumibot" key), publish
\* progress 20, instantiate the strategy class, initialise the portfolio.
\* libOK: whether the calls into the external library before line 755
\* return or raise; ctorOK: the same for strategy_class() at line 792.
SetupBacktest(j) ==
    /\ running = j /\ pc[j] = "setup"
    /\ \E lt \in Elapse, libOK \in BOOLEAN, ctorOK \in BOOLEAN :
          IF ~libOK THEN Fail(j, MsgSetup)
          ELSE IF ~ctorOK
          THEN FailWith(j, [backtest_jobs[j] EXCEPT !.progress = <<20>>], MsgSetup)
          ELSE /\ backtest_jobs' = [backtest_jobs EXCEPT ![j].progress = <<20>>]
               /\ pc' = [pc EXCEPT ![j] = "progress"]
               /\ task' = [PortfolioInit(task, InitialCapital, backtest_jobs[j].range[1])
                               EXCEPT !.late = lt]
               /\ UNCHANGED running
    /\ UNCHANGED <<fileOK, compat, metadata, recon, validation, storeVars, resp>>

\* ------------------------------------------ validate_dataset_file in full
\* line 114
required_columns == {"timestamp", "open", "high", "low", "close", "volume"}
\* the headers of the files on disk: all required columns, no volume, date
\* in place of timestamp, neither date nor timestamp
ColumnSets == {required_columns,
               required_columns \ {"volume"},
               (required_columns \ {"timestamp"}) \cup {"date"},
               required_columns \ {"timestamp"}}
\* the days the rows of a file carry, one row per day
DaySets == {{1}, {1, 2}, {2, 3}}
\* where the file of an entry is: at the path of the record, at a path one
\* of the glob patterns matches, or nowhere
Places == {"stored", "fallback", "nowhere"}
\* readable: the extension is .csv or .json and pandas reads the file and
\* converts its timestamps
Files == [place : Places, readable : BOOLEAN, columns : ColumnSets, days : DaySets]

\* data['timestamp'].min() / .max()
MinDay(S) == CHOOSE x \in S : \A y \in S : x <= y
MaxDay(S) == CHOOSE x \in S : \A y \in S : x >= y

\* a catalog entry no validation has written yet: its path and the derived
\* keys of its dataset_metadata (<<>>: the key is missing)
NewEntry == [path |-> "stored", row_count |-> <<>>, start_date |-> <<>>, end_date |-> <<>>]

\* lines 33-42: the result dict before any check
InitialResult ==
    [valid |-> FALSE, file_exists |-> FALSE, file_path |-> "None", row_count |-> <<>>,
     date_range |-> <<>>, warnings |-> {}, errors |-> {}]

\* lines 117-118: data['timestamp'] = data['date']
MappedColumns(columns) ==
    IF "date" \in columns /\ "timestamp" \notin columns
    THEN columns \cup {"timestamp"} ELSE columns

\* lines 22-212: the returned dict.  commits: session.commit() of the
\* metadata update went through (otherwise the except clause of lines
\* 199-202 turns the exception to a warning).
ValidationResult(file, commits) ==
    LET file_exists == file.place # "nowhere"
        read == file_exists /\ file.readable
        columns == MappedColumns(file.columns)
    IN [valid |-> read,
        file_exists |-> file_exists,
        file_path |-> IF file.place = "fallback" THEN "fallback" ELSE "stored",
        row_count |-> IF read THEN <<Cardinality(file.days)>> ELSE <<>>,
        date_range |-> IF read /\ "timestamp" \in columns
                       THEN <<[start |-> MinDay(file.days), end |-> MaxDay(file.days)]>>
                       ELSE <<>>,
        warnings |-> (IF read /\ required_columns \ columns # {}
                      THEN {"Missing columns"} ELSE {})
                     \cup (IF read /\ ~commits
                           THEN {"Failed to update dataset metadata"} ELSE {}),
        errors |-> IF ~file_exists THEN {"Dataset file not found"}
                   ELSE IF ~file.readable THEN {"Error reading dataset file"}
                   ELSE {}]

\* lines 139-194: the entry as the committed update leaves it
UpdatedEntry(entry, result) ==
    LET counted == [entry EXCEPT !.path = result.file_path,
                                 !.row_count = result.row_count]
    IN IF result.date_range # <<>>
       THEN [counted EXCEPT !.start_date = <<result.date_range[1].start>>,
                            !.end_date = <<result.date_range[1].end>>]
       ELSE counted

\* one call validate_dataset_file(dataset_record, session)
ValidateDatasetFile ==
    /\ validation.pc = "called"
    /\ \E commits \in BOOLEAN :
         LET result == ValidationResult(validation.file, commits)
         IN validation' = [validation EXCEPT
                              !.pc = "returned",
                              !.result = result,
                              !.entry = IF result.valid /\ commits
                                        THEN UpdatedEntry(@, result) ELSE @]
    /\ UNCHANGED <<jobVars, fileOK, compat, metadata, recon, storeVars, resp>>

\* the next call for the entry, made after the file on disk was replaced,
\* moved or removed
CallAgain(file) ==
    /\ validation.pc = "returned"
    /\ validation' = [validation EXCEPT !.pc = "called", !.file = file,
                                        !.result = InitialResult]
    /\ UNCHANGED <<jobVars, fileOK, compat, metadata, recon, storeVars, resp>>

\* ------------------------------------------------- availability endpoint
\* GET /datasets/check (datasets.py lines 77-207), a plain `def` served by
\* the thread pool.  available and count come from the search alone.  The
\* loop over the found entries stops at the first one whose metadata holds a
\* date range or whose file reads; in the second case the range and the
\* number of points derived from the file are written to the entry.
check_dataset_availability(market) ==
    LET datasets == search_datasets(market)
        has_date_range(d) == {"start_date", "end_date"} \subseteq metadata[d]
        stops == { d \in datasets : has_date_range(d) \/ fileOK[d] }
        first == CHOOSE d \in stops : \A e \in stops : d <= e
    IN /\ resp' = Reply("check", 200, Cardinality(datasets),
                        IF datasets # {} THEN "available" ELSE "unavailable")
       /\ metadata' = IF stops # {} /\ ~has_date_range(first)
                      THEN [metadata EXCEPT ![first] =
                               @ \cup DerivedKeys("check_dataset_availability")]
                      ELSE metadata
       /\ UNCHANGED <<jobVars, fileOK, compat, recon, validation, storeVars>>

\* ----------------------------------------------------------- result store
\* create_backtest_result: one row, locked defaulting to False, ai_analysis
\* to None, timestamp utcnow() (not earlier than the last one handed out).
\* `origin` is not a column: it records the job whose run created the row
\* (0 for a row created through the save endpoint).
\* ai_analysis: Optional[str] = None
NoAnalysis == "None"

\* Of the JSON columns the row keeps the key totalTrades of summary_metrics
\* (<<>> when the dict has no such key) and the pnl of each entry of trades.
NewRow(sid, ts, origin, totalTrades, trades) ==
    [id |-> nextId, strategy_id |-> sid, timestamp |-> ts, locked |-> FALSE,
     ai_analysis |-> NoAnalysis, origin |-> origin,
     totalTrades |-> totalTrades, trades |-> trades]

create_backtest_result(sid, ts, origin, totalTrades, trades) ==
    /\ table' = table \cup {NewRow(sid, ts, origin, totalTrades, trades)}
    /\ clock' = ts
    /\ nextId' = nextId + 1

\* datetime.utcnow() at the moment of a create
Now == {clock, clock + 1}

\* ---------------------------------------------------- the fallback engine
\* faulty variant of BarProgress: the share of the bars already processed,
\* out of 100
BarProgressFromZero(i, n) == (i * 100) \div n

\* line 816: int(((i + 1) / len(dates)) * 70) + 20
BarProgress(i, n) == ((i + 1) * 70) \div n + 20

\* calculate_rsi(prices, 14)[-1] against the thresholds 30 and 70
RsiValues == {"low", "mid", "high"}

\* lines 808-811 and 884-887 store timestamp.isoformat(), a str, so the
\* index of portfolio_history holds str objects: they have no isoformat()
IndexHasIsoformat == FALSE

\* lines 844-853: the trades of the fallback engine are dicts: they have no
\* attribute entry_time
TradeHasAttributes == FALSE

\* day_data['close'].iloc[0]: the close of the bar of a day in the file
FileClose(d) == IF d % 2 = 0 THEN 2 ELSE 1

\* lines 844-853: the dict appended to trades_list on a buy (None is written
\* NoDate for a time and 0 for a price)
OpenTrade(date, price, qty) ==
    [entry_time |-> date, entry_price |-> price, quantity |-> qty,
     exit_time |-> NoDate, exit_price |-> 0, pnl |-> 0]

\* lines 868-873: the last trade with no exit_time receives the exit
CloseLastTrade(trades, date, price, pnl) ==
    LET open == { k \in 1..Len(trades) : trades[k].exit_time = NoDate } IN
    IF open = {} THEN trades
    ELSE LET k == CHOOSE x \in open : \A y \in open : y <= x
         IN [trades EXCEPT ![k] = [@ EXCEPT !.exit_time = date, !.exit_price = price,
                                            !.pnl = pnl]]

\* Line 843 subtracts the float product qty * price, with qty the float
\* quotient cash / price of line 837.  RoundOff is that product less the
\* cash, in units of the last place: 0 when the quotient is exact (closes 1
\* and 2), 1 for the close 5, which stands for a close whose quotient is no
\* binary fraction and whose product rounds up (10000 / 1.1332 * 1.1332 is
\* 10000.000000000002).
RoundOff(cash, price) == IF price = 5 THEN 1 ELSE 0

\* lines 829-875: the trading logic of one iteration on the locals t, given
\* the reading of current_rsi ("low": below 30, "high": above 70), the bar's
\* close and its date
TradingLogic(t, rsi, price, date) ==
    IF rsi = "low" /\ t.positions = <<>>
    THEN LET qty == t.cash \div price IN
         [t EXCEPT !.price = price,
                   !.positions = <<[quantity |-> qty, entry_price |-> price]>>,
                   !.cash = t.cash - qty * price,
                   !.cash_error = -RoundOff(t.cash, price),
                   !.trades_list = Append(t.trades_list, OpenTrade(date, price, qty))]
    ELSE IF rsi = "high" /\ t.positions # <<>>
    THEN LET position == t.positions[1]
             pnl == (price - position.entry_price) * position.quantity
         IN [t EXCEPT !.price = price,
                      !.cash = t.cash + position.quantity * price,
                      !.positions = <<>>,
                      !.trades_list = CloseLastTrade(t.trades_list, date, price, pnl)]
    ELSE [t EXCEPT !.price = price]

\* lines 877-887, after the loop: one equity point, stamped with the date
\* of the last bar and valued at its close
EquityPoint(t) ==
    LET date == t.dates[Len(t.dates)]
        equity == t.cash + (IF t.positions = <<>> THEN 0
                            ELSE t.positions[1].quantity * t.price)
    IN [t EXCEPT !.equity_curve = Append(t.equity_curve,
                                         [timestamp |-> date, equity |-> equity])]

RECURSIVE SumPnl(_)
\* sum(t.get("pnl", 0) for t in trades)
SumPnl(trades) ==
    IF trades = <<>> THEN 0 ELSE trades[1].pnl + SumPnl(Tail(trades))

\* a float: the quotient num / den, or float('inf')
Quotient(num, den) == [finite |-> TRUE, num |-> num, den |-> den]
Infinity == [finite |-> FALSE, num |-> 0, den |-> 0]

\* lines 912-1008: the summary metrics of the equity curve and the trade list
\* (netProfit, profitFactor, totalTrades, avgTradePnl)
SummaryMetrics(t) ==
    LET trades == t.trades_list
        winning_trades == SelectSeq(trades, LAMBDA x : x.pnl > 0)
        losing_trades == SelectSeq(trades, LAMBDA x : x.pnl < 0)
        total_profit == SumPnl(winning_trades)
        total_loss == -SumPnl(losing_trades)
    IN [netProfit |-> t.equity_curve[Len(t.equity_curve)].equity - t.equity_curve[1].equity,
        profitFactor |-> IF trades = <<>> THEN Quotient(0, 1)
                         ELSE IF total_loss > 0 THEN Quotient(total_profit, total_loss)
                         ELSE Infinity,
        totalTrades |-> Len(trades),
        avgTradePnl |-> IF trades = <<>> THEN Quotient(0, 1)
                        ELSE Quotient(SumPnl(trades), Len(trades))]

\* lines 1019-1031: the pnl of the entries of the stored trades list
TradePnls(trades) == [k \in 1..Len(trades) |-> trades[k].pnl]

\* lines 1079-1083
MarkCompleted(job) ==
    [job EXCEPT !.status = "COMPLETED", !.message = <<MsgCompleted>>, !.results = <<"result">>]

\* lines 877-1085: equity point, progress 90, metrics, conversion of the
\* equity curve (line 1014) and of the trades (line 1022), persist, complete
FinishRun(j, job, t) ==
    LET job90 == [job EXCEPT !.progress = <<90>>, !.current_date = <<job.range[2]>>]
        metrics == SummaryMetrics(EquityPoint(t))
    IN
    IF ~IndexHasIsoformat THEN FailWith(j, job90, MsgConvert) /\ UNCHANGED storeVars
    ELSE IF t.trades_list # <<>> /\ ~TradeHasAttributes THEN FailWith(j, job90, MsgConvert) /\ UNCHANGED storeVars
    ELSE \E dbOK \in BOOLEAN, ts \in Now :
           IF ~dbOK THEN FailWith(j, job90, MsgPersist) /\ UNCHANGED storeVars
           ELSE /\ create_backtest_result(job.strategy_id, ts, j,
                                          <<metrics.totalTrades>>, TradePnls(t.trades_list))
                /\ backtest_jobs' = [backtest_jobs EXCEPT ![j] = MarkCompleted(job90)]
                /\ pc' = [pc EXCEPT ![j] = "done"]
                /\ running' = 0
                /\ task' = IdleTask

\* lines 814-817: the head of an iteration of `for i, date in
\* enumerate(dates)`: the write of progress
PublishProgress(j) ==
    /\ running = j /\ pc[j] = "progress"
    /\ backtest_jobs' = [backtest_jobs EXCEPT
                            ![j].progress = <<BarProgress(task.i, Len(task.dates))>>]
    /\ pc' = [pc EXCEPT ![j] = "bar"]
    /\ UNCHANGED <<running, task, fileOK, compat, metadata, recon, validation, storeVars, resp>>

\* lines 818-875: the write of current_date and the rest of the iteration,
\* and, after the last one, the rest of the function
BarStep(j) ==
    /\ running = j /\ pc[j] = "bar"
    /\ LET n == Len(task.dates)
           i == task.i
           date == task.dates[i + 1]
           published == [backtest_jobs[j] EXCEPT !.current_date = <<date>>]
       IN \E lt \in Elapse, r \in RsiValues :
          LET rsi == IF i >= RsiWarmup THEN r ELSE task.current_rsi
              t == [TradingLogic(task, rsi, FileClose(date), date)
                       EXCEPT !.late = lt, !.i = i + 1, !.current_rsi = rsi]
          IN IF rsi = "unbound"
             THEN FailWith(j, published, MsgUnbound) /\ UNCHANGED storeVars
             ELSE IF i + 1 < n
             THEN /\ backtest_jobs' = [backtest_jobs EXCEPT ![j] = published]
                  /\ task' = t
                  /\ pc' = [pc EXCEPT ![j] = "progress"]
                  /\ UNCHANGED <<running, storeVars>>
             ELSE FinishRun(j, published, t)
    /\ UNCHANGED <<fileOK, compat, metadata, recon, validation, resp>>

\* ------------------------------------------------- backtest-history API
RowIds == 1..MaxRows
\* strategy_id values of a save request ("" : the field is missing)
RowSids == {"strat-1", "strat-rsi_mean_reversion"}
\* texts the analysis generator can return (never empty: the text starts
\* with a heading)
AnalysisTexts == {"analysis-a", "analysis-b"}

\* session.get(BacktestResult, id): the set holding the row, or {}
get_backtest_result(id) == { r \in table : r.id = id }
Row(id) == CHOOSE r \in table : r.id = id
RowsOf(sid) == { r \in table : r.strategy_id = sid }

\* GET /backtest-history/{backtest_id}
get_backtest_result_by_id(id) ==
    /\ HandlerCanRun
    /\ resp' = IF get_backtest_result(id) = {}
               THEN Reply("get", 404, id, "not found")
               ELSE Reply("get", 200, id, Row(id).strategy_id)
    /\ UNCHANGED <<storeVars, jobVars, fileOK, compat, metadata, recon, validation>>

\* bodies of a save request: summary_metrics.totalTrades (<<>>: no such
\* key) and the pnl of the entries of trades
SaveBodies ==
    { [totalTrades |-> n, trades |-> ts] :
        n \in {<<>>, <<0>>, <<1>>}, ts \in {<<>>, <<0>>} }
\* the body of a result with no trade
EmptyBody == [totalTrades |-> <<0>>, trades |-> <<>>]

\* POST /backtest-history/ : the save endpoint.  The 400 raised for a missing
\* strategy_id is an Exception, so the handler's except clause turns it to 500.
\* summary_metrics and trades go to the row as the request carries them.
save_backtest_result(sid, body) ==
    /\ HandlerCanRun
    /\ nextId <= MaxRows
    /\ IF sid = ""
       THEN /\ resp' = Reply("save", 500, 0, "Failed to save backtest result")
            /\ UNCHANGED storeVars
       ELSE \E ts \in Now :
            /\ create_backtest_result(sid, ts, 0, body.totalTrades, body.trades)
            /\ resp' = Reply("save", 200, nextId, "saved")
    /\ UNCHANGED <<jobVars, fileOK, compat, metadata, recon, validation>>

\* crud_backtest.delete_backtest_result: <<returned value, table afterwards>>
delete_backtest_result(id) ==
    IF get_backtest_result(id) = {} THEN <<FALSE, table>>
    ELSE IF Row(id).locked THEN <<FALSE, table>>
    ELSE <<TRUE, table \ {Row(id)}>>

\* faulty variant of delete_backtest_result_by_id: the locked flag is not
\* consulted on the way to the DELETE statement
delete_ignoring_lock(id) ==
    /\ HandlerCanRun
    /\ IF get_backtest_result(id) = {}
       THEN /\ resp' = Reply("delete", 404, id, "not found")
            /\ UNCHANGED storeVars
       ELSE /\ table' = table \ {Row(id)}
            /\ resp' = Reply("delete", 200, id, "deleted successfully")
            /\ UNCHANGED <<clock, nextId>>
    /\ UNCHANGED <<jobVars, fileOK, compat, metadata, recon, validation>>

\* DELETE /backtest-history/{backtest_id}
delete_backtest_result_by_id(id) ==
    /\ HandlerCanRun
    /\ IF get_backtest_result(id) = {}
       THEN /\ resp' = Reply("delete", 404, id, "not found")
            /\ UNCHANGED storeVars
       ELSE IF Row(id).locked
       THEN /\ resp' = Reply("delete", 403, id, "locked and cannot be deleted")
            /\ UNCHANGED storeVars
       ELSE /\ table' = delete_backtest_result(id)[2]
            /\ resp' = IF delete_backtest_result(id)[1]
                       THEN Reply("delete", 200, id, "deleted successfully")
                       ELSE Reply("delete", 500, id, "Failed to delete")
            /\ UNCHANGED <<clock, nextId>>
    /\ UNCHANGED <<jobVars, fileOK, compat, metadata, recon, validation>>

\* faulty variant of NewestFirst: the query orders by ascending timestamp
OldestFirst(rows, keep) ==
    { head \in SUBSET rows :
        /\ Cardinality(head) = (IF Cardinality(rows) < keep THEN Cardinality(rows) ELSE keep)
        /\ \A a \in head, b \in rows \ head : a.timestamp <= b.timestamp }

\* lines 80-81: the orders `ORDER BY timestamp DESC` can return; rows with
\* equal timestamps come in either order.  A result list is represented by
\* its first `keep` rows.
NewestFirst(rows, keep) ==
    { head \in SUBSET rows :
        /\ Cardinality(head) = (IF Cardinality(rows) < keep THEN Cardinality(rows) ELSE keep)
        /\ \A a \in head, b \in rows \ head : a.timestamp >= b.timestamp }

\* faulty variant of ResultsToDelete: the loop deletes locked rows too
ResultsToDeleteAll(rows, head) == rows \ head

\* lines 88-97: of results[keep_count:], the rows that are deleted
ResultsToDelete(rows, head) == { r \in rows \ head : ~r.locked }

\* crud_backtest.delete_old_backtest_results, given the first keep_count rows
\* of the query: <<returned count, table afterwards>>
delete_old_backtest_results(sid, keep, head) ==
    IF Cardinality(RowsOf(sid)) <= keep THEN <<0, table>>
    ELSE <<Cardinality(ResultsToDelete(RowsOf(sid), head)),
           table \ ResultsToDelete(RowsOf(sid), head)>>

\* DELETE /backtest-history/strategy/{strategy_id}?keep_count=
delete_old_results_for_strategy(sid, keep) ==
    /\ HandlerCanRun
    /\ \E head \in NewestFirst(RowsOf(sid), keep) :
        /\ table' = delete_old_backtest_results(sid, keep, head)[2]
        /\ resp' = ReplyData("prune", 200, delete_old_backtest_results(sid, keep, head)[1],
                             sid, ToString(keep))
    /\ UNCHANGED <<clock, nextId, jobVars, fileOK, compat, metadata, recon, validation>>

\* POST /backtest-history/{backtest_id}/lock with {"locked": locked}.  The 404
\* raised for an unknown id is caught by the handler's except clause: 500.
update_backtest_lock_status(id, locked) ==
    /\ HandlerCanRun
    /\ IF get_backtest_result(id) = {}
       THEN /\ resp' = Reply("lock", 500, id, "Failed to update lock status")
            /\ UNCHANGED storeVars
       ELSE /\ table' = (table \ {Row(id)}) \cup {[Row(id) EXCEPT !.locked = locked]}
            /\ resp' = Reply("lock", 200, id, IF locked THEN "locked" ELSE "unlocked")
            /\ UNCHANGED <<clock, nextId>>
    /\ UNCHANGED <<jobVars, fileOK, compat, metadata, recon, validation>>

\* faulty variant of HasAnalysis: the endpoint does not look for an
\* existing analysis
NeverHasAnalysis(r) == FALSE

\* line 145: `if result.ai_analysis:` (None and "" are falsy)
HasAnalysis(r) == r.ai_analysis # NoAnalysis /\ r.ai_analysis # ""

\* crud_backtest.update_backtest_result_analysis
update_backtest_result_analysis(id, text) ==
    (table \ {Row(id)}) \cup {[Row(id) EXCEPT !.ai_analysis = text]}

\* POST /backtest-history/{backtest_id}/analyze.  out: the text the
\* generator returns, or "raise" when it raises.
generate_ai_analysis(id) ==
    /\ HandlerCanRun
    /\ IF get_backtest_result(id) = {}
       THEN /\ resp' = Reply("analyze", 404, id, "not found")
            /\ UNCHANGED storeVars
       ELSE IF HasAnalysis(Row(id))
       THEN /\ resp' = ReplyData("analyze", 200, id, "Analysis already exists", Row(id).ai_analysis)
            /\ UNCHANGED storeVars
       ELSE \E out \in AnalysisTexts \cup {"raise"} :
            IF out = "raise"
            THEN /\ resp' = Reply("analyze", 500, id, "Failed to generate analysis")
                 /\ UNCHANGED storeVars
            ELSE /\ table' = update_backtest_result_analysis(id, out)
                 /\ resp' = ReplyData("analyze", 200, id, "Analysis generated successfully", out)
                 /\ UNCHANGED <<clock, nextId>>
    /\ UNCHANGED <<jobVars, fileOK, compat, metadata, recon, validation>>

\* ------------------------------------------------------- specifications
TaskStep(j) ==
    \/ TaskStart(j)
    \/ LoadStrategy(j)
    \/ ResolveDataset(j)
    \/ LoadData(j)
    \/ SetupBacktest(j)
    \/ PublishProgress(j)
    \/ BarStep(j)

NextJobs ==
    \/ \E sid \in StrategyIds, m \in Markets, r \in DateRanges : run_backtest(sid, m, r)
    \/ \E j \in JobIds : get_backtest_job_status(j)
    \/ \E j \in JobIds : TaskStep(j)
    \/ \E d \in Datasets \ StaleDatasets : EnvFile(d)

NextStore ==
    \/ \E sid \in RowSids \cup {""} : save_backtest_result(sid, EmptyBody)
    \/ \E id \in RowIds : get_backtest_result_by_id(id)
    \/ \E id \in RowIds : delete_backtest_result_by_id(id)
    \/ \E sid \in RowSids, keep \in MinKeep..MaxKeep : delete_old_results_for_strategy(sid, keep)
    \/ \E id \in RowIds, locked \in BOOLEAN : update_backtest_lock_status(id, locked)
    \/ \E id \in RowIds : generate_ai_analysis(id)

\* the availability check next to submissions and to changes of the files
NextAvailability ==
    \/ \E m \in Markets : check_dataset_availability(m)
    \/ \E sid \in StrategyIds, m \in Markets, r \in DateRanges : run_backtest(sid, m, r)
    \/ \E d \in Datasets \ StaleDatasets : EnvFile(d)

Next == NextJobs \/ NextStore \/ NextAvailability

Spec == Init /\ [][Next]_vars

\* the job table and the background task alone
JobSpec == Init /\ [][NextJobs]_vars

\* the result store alone (no request reaches the job table or the catalog)
StoreInit == Init /\ \A d \in Datasets : ~compat[d]
StoreSpec == StoreInit /\ [][NextStore]_vars

\* the job table and the background task, started with a table that already
\* holds a row saved through the save endpoint, locked or not
HistoryInit ==
    /\ backtest_jobs = <<>>
    /\ pc = [j \in JobIds |-> "none"]
    /\ running = 0
    /\ task = IdleTask
    /\ fileOK = [d \in Datasets |-> d \notin StaleDatasets]
    /\ compat \in {[d \in Datasets |-> FALSE], [d \in Datasets |-> d = 2]}
    /\ metadata = [d \in Datasets |-> {}]
    /\ recon = [p \in Reconcilers |-> IdleRecon]
    /\ validation = NoValidation
    /\ \E locked \in BOOLEAN :
          table = {[id |-> 1, strategy_id |-> "strat-1", timestamp |-> 0,
                    locked |-> locked, ai_analysis |-> NoAnalysis, origin |-> 0,
                    totalTrades |-> <<0>>, trades |-> <<>>]}
    /\ clock = 0
    /\ nextId = 2
    /\ resp = NoResp

HistorySpec == HistoryInit /\ [][NextJobs]_vars

AvailabilitySpec == Init /\ [][NextAvailability]_vars

\* validate_dataset_file as a function of the file on disk and of the entry
\* earlier calls left
ValidateInit ==
    /\ backtest_jobs = <<>>
    /\ pc = [j \in JobIds |-> "none"]
    /\ running = 0
    /\ task = IdleTask
    /\ fileOK = [d \in Datasets |-> d \notin StaleDatasets]
    /\ compat = [d \in Datasets |-> FALSE]
    /\ metadata = [d \in Datasets |-> {}]
    /\ recon = [p \in Reconcilers |-> IdleRecon]
    /\ \E file \in Files :
          validation = [pc |-> "called", file |-> file, entry |-> NewEntry,
                        result |-> InitialResult]
    /\ table = {}
    /\ clock = 0
    /\ nextId = 1
    /\ resp = NoResp

NextValidate ==
    \/ ValidateDatasetFile
    \/ \E file \in Files : CallAgain(file)

ValidateSpec == ValidateInit /\ [][NextValidate]_vars

\* the save endpoint with every request body, and the reads and deletes of
\* the rows it created
NextSave ==
    \/ \E sid \in RowSids, body \in SaveBodies : save_backtest_result(sid, body)
    \/ \E id \in RowIds : get_backtest_result_by_id(id)
    \/ \E id \in RowIds : delete_backtest_result_by_id(id)

SaveSpec == StoreInit /\ [][NextSave]_vars

\* The simulation loop and the metric computation as functions of their
\* inputs: the bars of the run (their days and closes) and the RSI reading
\* of each iteration.  StartDay is parameters["startDate"]; the run's dates
\* are the days of StartDay..MaxLoopBars that carry a bar.
StartDay == 1
LoopDates == { SortedDays(S) : S \in (SUBSET (StartDay..MaxLoopBars)) \ {{}} }
Closes == {1, 2, 5}

LoopInit ==
    /\ backtest_jobs = <<>>
    /\ pc = [j \in JobIds |-> "none"]
    /\ running = 0
    /\ task \in { [PortfolioInit(IdleTask, InitialCapital, StartDay) EXCEPT !.dates = dates] :
                    dates \in LoopDates }
    /\ fileOK = [d \in Datasets |-> d \notin StaleDatasets]
    /\ compat = [d \in Datasets |-> FALSE]
    /\ metadata = [d \in Datasets |-> {}]
    /\ recon = [p \in Reconcilers |-> IdleRecon]
    /\ validation = NoValidation
    /\ table = {}
    /\ clock = 0
    /\ nextId = 1
    /\ resp = NoResp

\* lines 820-875: one iteration of the loop, with the reading r that line
\* 827 binds to current_rsi and the close of the bar
LoopIteration(r, close) ==
    /\ task.summary_metrics = <<>> /\ task.i < Len(task.dates)
    /\ task' = [TradingLogic(task, r, close, task.dates[task.i + 1])
                    EXCEPT !.i = task.i + 1, !.current_rsi = r]
    /\ UNCHANGED <<backtest_jobs, pc, running, fileOK, compat, metadata, recon, validation, storeVars, resp>>

\* lines 877-1008: after the last iteration, the equity point and the
\* summary metrics
ComputeMetrics ==
    /\ task.summary_metrics = <<>> /\ task.i = Len(task.dates)
    /\ task' = [EquityPoint(task) EXCEPT !.summary_metrics = <<SummaryMetrics(EquityPoint(task))>>]
    /\ UNCHANGED <<backtest_jobs, pc, running, fileOK, compat, metadata, recon, validation, storeVars, resp>>

NextLoop ==
    \/ \E r \in RsiValues, close \in Closes : LoopIteration(r, close)
    \/ ComputeMetrics

LoopSpec == LoopInit /\ [][NextLoop]_vars

\* Reconciliation of a catalog entry with its file, step by step.
\* check_dataset_availability is a plain `def` endpoint, which the framework
\* runs in a worker thread; validate_dataset_file runs on the event loop (in
\* run_backtest and in the task).  Each works in a session of its own: the
\* session loads the row, the code reads the file, updates the loaded dict
\* and commits the whole column.
\* the session's query returns the row of dataset d
LoadEntry(p, d) ==
    /\ recon[p].pc = "idle"
    /\ recon' = [recon EXCEPT ![p] = [pc |-> "loaded", dataset |-> d,
                                      dataset_metadata |-> metadata[d], wrote |-> FALSE]]
    /\ UNCHANGED <<jobVars, fileOK, compat, validation, metadata, storeVars, resp>>

\* whether the reconciliation reaches its commit: the file reads, and
\* check_dataset_availability found no date range in the loaded metadata
\* (datasets.py lines 119-125)
ReachesCommit(p) ==
    /\ fileOK[recon[p].dataset]
    /\ p = "check_dataset_availability"
          => ~({"start_date", "end_date"} \subseteq recon[p].dataset_metadata)

\* metadata.update(...); dataset.dataset_metadata = metadata; session.add;
\* session.commit(): the column receives the loaded dict with the derived
\* keys added
CommitEntry(p) ==
    /\ recon[p].pc = "loaded"
    /\ IF ReachesCommit(p)
       THEN /\ metadata' = [metadata EXCEPT ![recon[p].dataset] =
                               recon[p].dataset_metadata \cup DerivedKeys(p)]
            /\ recon' = [recon EXCEPT ![p].pc = "done", ![p].wrote = TRUE]
       ELSE /\ recon' = [recon EXCEPT ![p].pc = "done"]
            /\ UNCHANGED metadata
    /\ UNCHANGED <<jobVars, fileOK, compat, validation, storeVars, resp>>

\* the call returns and its session closes
ReturnEntry(p) ==
    /\ recon[p].pc = "done"
    /\ recon' = [recon EXCEPT ![p] = IdleRecon]
    /\ UNCHANGED <<jobVars, fileOK, compat, validation, metadata, storeVars, resp>>

NextReconcile ==
    \/ \E p \in Reconcilers, d \in Datasets : LoadEntry(p, d)
    \/ \E p \in Reconcilers : CommitEntry(p)
    \/ \E p \in Reconcilers : ReturnEntry(p)
    \/ \E d \in Datasets \ StaleDatasets : EnvFile(d)

ReconcileSpec == Init /\ [][NextReconcile]_vars

\* asyncio runs every task it was handed: a task that can take a step
\* eventually takes it
FairJobSpec == JobSpec /\ \A j \in JobIds : WF_vars(TaskStep(j))

\* ================================================================ claims
Terminal(job) == job.status \in {"COMPLETED", "FAILED"}

StatusSteps ==
    {<<"PENDING", "RUNNING">>, <<"RUNNING", "COMPLETED">>, <<"RUNNING", "FAILED">>}

\* C1: a job's status changes only along PENDING -> RUNNING -> COMPLETED or
\* FAILED, and once it is COMPLETED or FAILED no step of any operation
\* changes its status, progress, current date, message or result.
C1_StatusMonotone ==
    [][\A j \in Jobs :
          /\ backtest_jobs'[j].status # backtest_jobs[j].status
                => <<backtest_jobs[j].status, backtest_jobs'[j].status>> \in StatusSteps
          /\ Terminal(backtest_jobs[j]) => backtest_jobs'[j] = backtest_jobs[j]]_vars

\* a handler has run after the job it reports on reached a terminal status
C1_Witness ==
    /\ resp.op = "status" /\ resp.code = 200
    /\ Terminal(backtest_jobs[resp.arg])

\* the failures the environment of a run can cause: the dataset or its file
\* gone, the file unreadable, the external library raising, the deadline
EnvironmentFailures == {MsgNoDataset, MsgNoValid, MsgRead, MsgSetup, MsgTimeout}

\* the task resolves the strategy id to a module that exists, the date
\* filter leaves at least one bar, and nothing in the environment failed
ValidRun(j) ==
    /\ StrategyName(backtest_jobs[j].strategy_id) \in StrategyModules
    /\ FilterDays(backtest_jobs[j].range) # {}
    /\ \A m \in EnvironmentFailures : backtest_jobs[j].message # <<m>>

\* C2: a job whose strategy resolves, whose filtered bar set is non-empty and
\* whose run stays within the timeout ends COMPLETED with its result
\* attached and one row persisted for it.
C2_ValidRunCompletes ==
    \A j \in Jobs :
        (pc[j] = "done" /\ ValidRun(j))
            => /\ backtest_jobs[j].status = "COMPLETED"
               /\ backtest_jobs[j].results # Absent
               /\ Cardinality({r \in table : r.origin = j}) = 1

\* a run with a strategy module, bars in range and no failure of its
\* environment has ended FAILED
C2_Witness ==
    \E j \in Jobs :
        /\ pc[j] = "done" /\ ValidRun(j)
        /\ backtest_jobs[j].status = "FAILED"
        /\ backtest_jobs[j].progress # Absent /\ backtest_jobs[j].progress[1] > 20

\* C3: under fair scheduling of the background tasks every submitted job
\* eventually reaches COMPLETED or FAILED.
C3_EveryJobEnds ==
    \A j \in JobIds :
        (pc[j] = "queued") ~> (j \in Jobs /\ Terminal(backtest_jobs[j]))

\* a job whose task got as far as loading its data has ended
C3_Witness ==
    \E j \in Jobs :
        /\ pc[j] = "done" /\ Terminal(backtest_jobs[j])
        /\ backtest_jobs[j].total_days # Absent

\* C4: a task that ends without completing leaves its job FAILED with a
\* non-empty message, no result attached and no row persisted for it.
C4_FailureRecorded ==
    \A j \in Jobs :
        (pc[j] = "done" /\ backtest_jobs[j].status # "COMPLETED")
            => /\ backtest_jobs[j].status = "FAILED"
               /\ backtest_jobs[j].message # Absent
               /\ backtest_jobs[j].message # <<"">>
               /\ backtest_jobs[j].results = Absent
               /\ {r \in table : r.origin = j} = {}

\* a task has ended on an exception raised inside the simulation loop
C4_Witness ==
    \E j \in Jobs :
        /\ pc[j] = "done" /\ backtest_jobs[j].status = "FAILED"
        /\ backtest_jobs[j].message = <<MsgUnbound>>

\* C5: the timeout is checked inside the simulation loop: a loop step taken
\* after the deadline has passed ends the job FAILED with the timeout message.
C5_TimeoutInLoop ==
    [][\A j \in Jobs :
          (running = j /\ pc[j] = "bar" /\ task.late)
              => /\ backtest_jobs'[j].status = "FAILED"
                 /\ backtest_jobs'[j].message = <<MsgTimeout>>]_vars

\* the deadline has passed while the task stands at the head of the loop
C5_Witness ==
    \E j \in Jobs : running = j /\ pc[j] = "bar" /\ task.late

\* the strategy ids of the request set that are well formed and name an
\* existing strategy: the catalogued one and the one with a module
ExistingStrategyIds == {"strat-1", "strat-rsi_mean_reversion"}

\* the datasets of a market whose file is present
Validating(market) == { d \in Datasets : DatasetMarket(d) = market /\ fileOK[d] }

\* C6: a submission with an existing strategy creates exactly one job, in
\* PENDING, when at least one dataset validates, whatever the compatibility
\* flags say; when none validates it is refused and creates no job.
C6_SubmitAdmission ==
    [][\A sid \in ExistingStrategyIds, market \in Markets, range \in DateRanges :
          (resp'.op = "run" /\ run_backtest(sid, market, range))
              => IF Validating(market) # {}
                 THEN /\ Len(backtest_jobs') = Len(backtest_jobs) + 1
                      /\ backtest_jobs'[Len(backtest_jobs')].status = "PENDING"
                      /\ \A j \in Jobs : backtest_jobs'[j] = backtest_jobs[j]
                      /\ pc'[Len(backtest_jobs')] = "queued"
                      /\ \A j \in Jobs : pc'[j] = pc[j]
                      /\ resp'.code = 200
                 ELSE /\ backtest_jobs' = backtest_jobs
                      /\ pc' = pc /\ running' = running
                      /\ resp'.code = 400]_vars

\* a job was admitted although no dataset is flagged compatible
C6_Witness ==
    /\ resp.op = "run" /\ resp.code = 200
    /\ backtest_jobs[resp.arg].status = "PENDING"
    /\ \A d \in Datasets : ~compat[d]


RowIdsIn(rows) == { r.id : r \in rows }

\* C7: deleting a locked row is refused and leaves the table as it was; no
\* step removes a row whose locked flag is set.
C7_LockedNotDeleted ==
    [][/\ \A id \in RowIds :
            (/\ resp'.op = "delete" /\ resp'.arg = id
             /\ \E r \in table : r.id = id /\ r.locked
             /\ delete_backtest_result_by_id(id))
                => (table' = table /\ resp'.code = 403)
       /\ \A r \in table : r.id \notin RowIdsIn(table') => ~r.locked]_vars

\* the deletion of a locked row was refused
C7_Witness ==
    /\ resp.op = "delete" /\ resp.code = 403
    /\ \E r \in table : r.id = resp.arg /\ r.locked

\* C8: pruning a strategy removes none of its locked rows and leaves at most
\* keep_count unlocked rows of that strategy.
C8_PruneBound ==
    [][\A sid \in RowSids, keep \in MinKeep..MaxKeep :
          (/\ resp'.op = "prune" /\ resp'.body = sid
           /\ delete_old_results_for_strategy(sid, keep))
              => /\ \A r \in table : r.locked => r \in table'
                 /\ Cardinality({r \in table' : r.strategy_id = sid /\ ~r.locked}) <= keep]_vars

\* a prune removed a row of a strategy that also has a locked row
C8_Witness ==
    /\ resp.op = "prune" /\ resp.arg > 0
    /\ \E r \in table : r.strategy_id = resp.body /\ r.locked

\* the keep newest rows of a set of rows with distinct timestamps
Newest(rows, keep) ==
    { r \in rows : Cardinality({q \in rows : q.timestamp > r.timestamp}) < keep }

DistinctTimestamps(rows) ==
    \A a \in rows, b \in rows : a.timestamp = b.timestamp => a = b

C10_AnalyzeOnce ==
    [][/\ \A id \in RowIds :
            (/\ resp'.op = "analyze" /\ resp'.arg = id
             /\ \E r \in table : r.id = id /\ r.ai_analysis \in AnalysisTexts
             /\ generate_ai_analysis(id))
                => /\ table' = table
                   /\ resp'.code = 200
                   /\ resp'.body = "Analysis already exists"
                   /\ \E r \in table : r.id = id /\ resp'.data = r.ai_analysis
       /\ \A r \in table, q \in table' :
            (q.id = r.id /\ r.ai_analysis \in AnalysisTexts)
                => q.ai_analysis = r.ai_analysis]_vars

\* a second analysis of a row was answered from the stored text
C10_Witness ==
    /\ resp.op = "analyze" /\ resp.body = "Analysis already exists"
    /\ \E r \in table : r.id = resp.arg /\ r.ai_analysis = resp.data


\* the (progress, current_date) pairs the task's whole updates write for a
\* job once it is in the loop: one per bar, and the pair written after it
LoopUpdates(job) ==
    LET dates == SortedDays(FilterDays(job.range)) IN
    { <<BarProgress(i - 1, Len(dates)), dates[i]>> : i \in 1..Len(dates) }
        \cup { <<90, job.range[2]>> }

\* a status response that mixes the fields of two updates
Torn(view, job) ==
    \/ /\ view.status = "RUNNING" /\ view.progress > 20
       /\ <<view.progress, view.current_date>> \notin LoopUpdates(job)
    \/ view.status \in {"COMPLETED", "FAILED"} /\ view.message = ""
    \/ view.status = "COMPLETED" /\ job.results = Absent

\* C11: a status read never returns a torn update: the progress and current
\* date it reports were written by one update of the task, and a terminal
\* status comes with its message (and, for COMPLETED, its result).
C11_NoTornRead ==
    [][\A j \in Jobs :
          (/\ resp'.op = "status" /\ resp'.arg = j
           /\ get_backtest_job_status(j))
              => ~Torn(StatusView(backtest_jobs[j]), backtest_jobs[j])]_vars

\* a status read reported a job whose task had published loop progress
C11_Witness ==
    /\ resp.op = "status" /\ resp.code = 200
    /\ backtest_jobs[resp.arg].progress # Absent
    /\ backtest_jobs[resp.arg].progress[1] > 20
    /\ backtest_jobs[resp.arg].current_date # <<backtest_jobs[resp.arg].range[1]>>


\* C12: a submission is answered before any step of its job has run, and the
\* run does not hold up the handlers: between any two steps of a running
\* task a status request (and a submission) can be served.
C12_ServedDuringRun ==
    /\ \A j \in Jobs : pc[j] = "queued" => backtest_jobs[j].status = "PENDING"
    /\ \A j \in Jobs :
          running = j => /\ ENABLED get_backtest_job_status(j)
                         /\ ENABLED run_backtest("strat-9", <<"EUR/USD", "1d">>, <<1, 1>>)

\* a task stands between two iterations of its loop
C12_Witness ==
    \E j \in Jobs : running = j /\ pc[j] = "bar" /\ backtest_jobs[j].status = "RUNNING"


\* well-formed strategy ids that name neither a catalogued strategy nor a
\* strategy module
UnknownStrategyIds ==
    { sid \in StrategyIds :
        /\ Len(Split(sid)) = 2 /\ Split(sid)[1] = "strat"
        /\ IF IsDigit(Split(sid)[2]) THEN ToInt(Split(sid)[2]) \notin StrategyCatalog
           ELSE Split(sid)[2] \notin StrategyModules }

\* C13: an operation that names an unknown id answers 404 within the call
\* and changes neither the job table nor the result table: status of an
\* unknown job, submission with an unknown strategy, get / delete / lock /
\* analyze of an unknown result.
C13_UnknownIdNotFound ==
    [][/\ \A j \in JobIds \ Jobs :
            (resp'.op = "status" /\ get_backtest_job_status(j))
                => (resp'.code = 404 /\ backtest_jobs' = backtest_jobs /\ table' = table)
       /\ \A sid \in UnknownStrategyIds, market \in Markets, range \in DateRanges :
            (resp'.op = "run" /\ run_backtest(sid, market, range))
                => (resp'.code = 404 /\ backtest_jobs' = backtest_jobs /\ pc' = pc)
       /\ \A id \in RowIds \ RowIdsIn(table), locked \in BOOLEAN :
            (\/ resp'.op = "get" /\ get_backtest_result_by_id(id)
             \/ resp'.op = "delete" /\ delete_backtest_result_by_id(id)
             \/ resp'.op = "lock" /\ update_backtest_lock_status(id, locked)
             \/ resp'.op = "analyze" /\ generate_ai_analysis(id))
                => (resp'.code = 404 /\ table' = table /\ backtest_jobs' = backtest_jobs)]_vars

\* a job exists for a strategy id that names neither a catalogued strategy
\* nor a module
C13_Witness ==
    \E j \in Jobs : backtest_jobs[j].strategy_id \in UnknownStrategyIds


\* the strategy ids of accepted jobs that name a catalogued strategy or a
\* strategy module
ResolvableStrategyIds ==
    { sid \in StrategyIds :
        /\ Len(Split(sid)) = 2 /\ Split(sid)[1] = "strat"
        /\ sid \notin UnknownStrategyIds }

\* C14: the task's strategy-resolution step succeeds for a catalogued
\* numeric id and for the slug of an existing module; a job fails at that
\* step only when its id names neither.
C14_BothShapesResolve ==
    \A j \in Jobs :
        backtest_jobs[j].strategy_id \in ResolvableStrategyIds
            => backtest_jobs[j].message # <<MsgImport>>

\* the task of a job submitted with the catalogued id has ended
C14_Witness ==
    \E j \in Jobs :
        /\ pc[j] = "done" /\ backtest_jobs[j].strategy_id = "strat-1"
        /\ ToInt(Split("strat-1")[2]) \in StrategyCatalog

\* C15: every row of the BacktestResult table, created by a completing job
\* or through the save endpoint, carries summary_metrics.totalTrades equal to
\* the number of entries of its trades list.
C15_TotalTradesMatches ==
    \A r \in table : r.totalTrades = <<Len(r.trades)>>

\* the save endpoint has stored a row whose summary metrics count trades
C15_Witness ==
    /\ resp.op = "save" /\ resp.code = 200
    /\ \E r \in table : r.id = resp.arg /\ r.origin = 0 /\ r.totalTrades # <<>>

C19_NoClobber ==
    \A d \in Datasets :
        (\A p \in Reconcilers :
            recon[p].pc = "done" /\ recon[p].dataset = d /\ recon[p].wrote)
        => (\A p \in Reconcilers : DerivedKeys(p) \subseteq metadata[d])

\* both reconciliations have written the same entry
C19_Witness ==
    \E d \in Datasets : \A p \in Reconcilers :
        recon[p].pc = "done" /\ recon[p].dataset = d /\ recon[p].wrote

OpenTrades(trades) == { k \in 1..Len(trades) : trades[k].exit_time = NoDate }

C24_ProgressIsElapsedShare ==
    \A j \in Jobs :
        (running = j /\ pc[j] = "bar" /\ TotalDays(backtest_jobs[j].range) > 0) =>
            backtest_jobs[j].progress =
                <<((task.dates[task.i + 1] - backtest_jobs[j].range[1]) * 100)
                      \div TotalDays(backtest_jobs[j].range)>>

\* the loop has written the progress of a bar of a range of several days
C24_Witness ==
    \E j \in Jobs :
        /\ running = j /\ pc[j] = "bar"
        /\ TotalDays(backtest_jobs[j].range) > 0
        /\ backtest_jobs[j].progress # <<20>>

\* C27: the progress a status request reports for a job is within 0..100
\* and no step of any operation lowers it.
C27_ProgressMonotone ==
    [][ /\ \A j \in DOMAIN backtest_jobs' :
              StatusView(backtest_jobs'[j]).progress \in 0..100
        /\ \A j \in Jobs :
              StatusView(backtest_jobs'[j]).progress >= StatusView(backtest_jobs[j]).progress
      ]_vars

\* a task has ended after its loop raised the progress above that of the
\* set-up phase
C27_Witness ==
    \E j \in Jobs :
        /\ pc[j] = "done" /\ backtest_jobs[j].status = "FAILED"
        /\ StatusView(backtest_jobs[j]).progress > 20

C30_CheckAgreesWithSubmit ==
    [][ \A m \in Markets :
          check_dataset_availability(m) =>
             \A sid \in StrategyIds :
                CheckStrategyId(sid) = 200 =>
                   ((resp'.body = "available") <=> SubmitAccepts(sid, m)')
      ]_vars

\* a check has answered available while no file of the catalog reads
C30_Witness ==
    /\ resp.op = "check" /\ resp.body = "available"
    /\ \A m \in Markets : ValidDatasets(m) = {}

\* C25: when a validation returns valid, the entry holds the values of the
\* file: the path where the file was found, its number of rows, its first
\* and last day; an entry whose file has no timestamp holds no date left by
\* an earlier file.
C25_ValidMeansReconciled ==
    (validation.pc = "returned" /\ validation.result.valid) =>
        LET file == validation.file
            entry == validation.entry
        IN /\ entry.path = file.place
           /\ entry.row_count = <<Cardinality(file.days)>>
           /\ IF "timestamp" \in MappedColumns(file.columns)
              THEN /\ entry.start_date = <<MinDay(file.days)>>
                   /\ entry.end_date = <<MaxDay(file.days)>>
              ELSE entry.start_date = <<>> /\ entry.end_date = <<>>

\* a validation has returned valid for a file found through the glob
\* patterns and has written the entry
C25_Witness ==
    /\ validation.pc = "returned" /\ validation.result.valid
    /\ validation.file.place = "fallback"
    /\ validation.entry.path = "fallback"
    /\ validation.entry.row_count = <<Cardinality(validation.file.days)>>

\* C26: a validation returns valid only for a file that exists at the
\* stored path or at a fallback path, that parses, and that has every
\* required column, timestamp possibly derived from date.
C26_ValidMeansRequiredColumns ==
    (validation.pc = "returned" /\ validation.result.valid) =>
        /\ validation.file.place # "nowhere"
        /\ validation.file.readable
        /\ required_columns \subseteq MappedColumns(validation.file.columns)

\* a validation has returned valid for a file whose timestamp column was
\* derived from its date column
C26_Witness ==
    /\ validation.pc = "returned" /\ validation.result.valid
    /\ "timestamp" \notin validation.file.columns
    /\ validation.result.warnings = {}

====
